---------------------------- MODULE Spec2Model ----------------------------
(***************************************************************************)
(* The i18n maintenance pipeline of claude-code-history-viewer:            *)
(*   - the Key Synchronizer   (scripts/sync-i18n-keys.mjs, main)           *)
(*   - the Namespace Splitter (split script: getNamespace, splitLanguage,  *)
(*     main) together with the shared configuration (i18n-config.mjs),     *)
(*   - the Type Generator     (generateTypes),                             *)
(* and three parts of its user interface:                                  *)
(*   - session deletion (useSessionDelete, DeleteSessionDialog),           *)
(*   - the settings export (ExportImport: sanitizeSettings, handleExport), *)
(*   - the JSON settings editor (JsonSettingsEditor).                      *)
(* Each component has its own specification (SpecSync, SpecSplit,          *)
(* SpecTypes, SpecHook, SpecDialog, SpecExport, SpecEditor); the variables *)
(* of the components a specification does not run stay at their initial    *)
(* values.                                                                 *)
(*                                                                         *)
(* Representation.                                                         *)
(*   A JSON object is a sequence of entries [k |-> key, v |-> value] with  *)
(*   pairwise distinct keys: the order of the sequence is the property     *)
(*   order of the JavaScript object (Object.keys, JSON.stringify).         *)
(*   A file on disk is a record [kind, canon, entries]: kind is "absent",  *)
(*   "malformed" (the text is not a JSON object) or "json"; entries is     *)
(*   what JSON.parse yields and canon tells whether the bytes are exactly  *)
(*   JSON.stringify(entries, null, 2) + "\n".                              *)
(*   Keys of the per-namespace files are translation keys whose prefix is  *)
(*   an entry of PREFIX_TO_NAMESPACE, so none of them is an array index or *)
(*   "__proto__"; object property order is therefore insertion order.      *)
(*   A key of a legacy flat file is an arbitrary string, held as the       *)
(*   sequence of its dot-separated segments.                               *)
(***************************************************************************)
EXTENDS Integers, Sequences, FiniteSets, TLC

VARIABLES
  files,      \* files[lang][ns]: the file locales/{lang}/{ns}.json
  dirs,       \* dirs[lang]: whether the directory locales/{lang} exists
  pc,         \* position of the running script
  nsIdx,      \* index of the namespace of the outer loop of the Synchronizer
  langIdx,    \* index of the language of the current loop
  report,     \* report[lang][ns]: the counts the Synchronizer printed this run
  totals,     \* totals[lang]: the summed key count of the final pass
  run,        \* number of the current run of the script
  files0,     \* the tree when the current run started
  dirs0,      \* the directories when the current run started
  writeLog,   \* the <<lang, ns>> files written during the current run
  accessed,   \* the <<lang, ns>> files the Synchronizer and the Type
              \* Generator have tested for existence, read or written
  prevChanges,\* the number of keys the earlier runs added or removed
  thrown,     \* the exception that ended the script, "none" while there is none
  flat,       \* flat[lang]: the legacy file locales/{lang}.json
  allStats,   \* allStats[lang]: the key counts splitLanguage returned
  classified, \* the calls of getNamespace made: [key, ns] with ns the result
  warnings,   \* the <<lang, ns>> mismatches the Splitter printed
  okPrinted,  \* whether the Splitter printed that all counts match
  namespaceKeys, \* generateTypes: the Map of namespace to keys, as a sequence
  allKeys,    \* generateTypes: the keys of all namespaces, concatenated
  genWarnings,\* generateTypes: the namespaces warned about
  output,     \* the generated file types.generated.ts
  isDeleting, \* useSessionDelete: the isDeleting state
  error,      \* useSessionDelete: the error state, Null or a message
  calls,      \* the deleteSession calls made so far, in call order
  invoked,    \* the filePath arguments of the delete_session requests issued
  open,       \* DeleteSessionDialog: the open prop
  filePath,   \* DeleteSessionDialog: the filePath prop
  closedBy,   \* who called onOpenChange(false) last, "none" while open
  callbacks,  \* the callbacks handleDelete has called, in call order
  allSettings,\* ExportImport: the allSettings prop, content per scope
  exportScope,\* ExportImport: the exportScope state
  excludeSensitive, \* ExportImport: the excludeSensitive state
  isExporting,\* ExportImport: the isExporting state
  exportStep, \* where the running handleExport is: "idle", "save", "write"
  settingsToExport, \* handleExport: the settings it is about to write, with
              \* the scope they came from and whether they were sanitized
  writes,     \* the write_text_file requests of the latest handleExport
  initialContent, \* JsonSettingsEditor: the initialContent prop
  content,    \* JsonSettingsEditor: the content state
  editorError,\* JsonSettingsEditor: the error state, Null or a message
  isSaving,   \* JsonSettingsEditor: the isSaving state
  isDirty,    \* JsonSettingsEditor: the isDirty state
  inFlight,   \* the content of the save_settings request awaiting its answer
  lastRequest,\* the content of the latest save_settings request, NoText if none
  lastSaved,  \* the content of the latest request that resolved
  lastOnSave, \* the argument of the latest onSave call
  lastAttempt \* how the latest handleSave ended

syncVars == <<nsIdx, report, totals, run, files0, writeLog, accessed,
             prevChanges>>

splitVars == <<flat, allStats, classified, warnings, okPrinted>>

typeVars == <<namespaceKeys, allKeys, genWarnings, output>>

\* the variables of the components other than the two scripts above
deleteVars == <<isDeleting, error, calls, invoked, open, filePath, closedBy,
                callbacks>>

exportVars == <<allSettings, exportScope, excludeSensitive, isExporting,
                exportStep, settingsToExport, writes>>

editorVars == <<initialContent, content, editorError, isSaving, isDirty,
                inFlight, lastRequest, lastSaved, lastOnSave, lastAttempt>>

\* the variables of the user interface
uiVars == <<deleteVars, exportVars, editorVars>>

otherVars == <<typeVars, uiVars>>

vars == <<files, dirs, dirs0, pc, langIdx, thrown, syncVars, splitVars, otherVars>>

-----------------------------------------------------------------------------
(* Shared configuration: i18n-config.mjs                                   *)

NAMESPACES == <<"common", "analytics", "session", "settings", "tools",
                "error", "message", "renderers", "update", "feedback",
                "recentEdits">>

LANGUAGES == <<"en", "ko", "ja", "zh-CN", "zh-TW">>

BASE_LANG == "en"

\* The namespaces and languages the Synchronizer of the model runs over: the
\* leading ones of NAMESPACES and LANGUAGES.
NsList == <<"common", "analytics">>
LangList == <<"en", "ko">>

Range(s) == {s[i] : i \in 1..Len(s)}

NsSet == Range(NsList)
LangSet == Range(LangList)

\* A mutant of TARGET_LANGUAGES: the base language is not filtered out.
TARGET_LANGUAGES_Unfiltered == LangList

TARGET_LANGUAGES == SelectSeq(LangList, LAMBDA lang : lang # "en")

-----------------------------------------------------------------------------
(* JSON objects and files                                                  *)

Absent == [kind |-> "absent", canon |-> FALSE, entries |-> <<>>]
Malformed == [kind |-> "malformed", canon |-> FALSE, entries |-> <<>>]

IsTable(f) == f.kind = "json"

ObjectKeys(obj) == [i \in 1..Len(obj) |-> obj[i].k]

KeySet(obj) == {obj[i].k : i \in 1..Len(obj)}

HasKey(obj, key) == key \in KeySet(obj)

\* obj[key] for a key the object holds
Get(obj, key) == (CHOOSE e \in Range(obj) : e.k = key).v

\* obj[key] = value: an existing property keeps its place, a new one goes last
Put(obj, key, value) ==
  IF HasKey(obj, key)
    THEN [i \in 1..Len(obj) |->
            IF obj[i].k = key THEN [k |-> key, v |-> value] ELSE obj[i]]
    ELSE Append(obj, [k |-> key, v |-> value])

\* delete obj[key]
Delete(obj, key) == SelectSeq(obj, LAMBDA e : e.k # key)

JSONparse(f) == f.entries

JSONstringify(obj) == [kind |-> "json", canon |-> TRUE, entries |-> obj]

existsSync(f) == f # Absent

\* A mutant of BaseExists: a missing base file is taken for an empty table.
BaseExists_Always(f) == TRUE

\* fs.existsSync(enPath)
BaseExists(f) == existsSync(f)


-----------------------------------------------------------------------------
(* The trees the Synchronizer is started on                                *)

\* The keys of the per-namespace translation tables of the model: the first
\* MaxKeys of KeyNames.
KeyNames == <<"a", "b", "c", "d">>
MaxKeys == 2
Keys == Range(SubSeq(KeyNames, 1, MaxKeys))

\* The text of key k in locale lang.
TextOf(lang, k) == <<lang, k>>

Injective(s) == \A i, j \in 1..Len(s) : s[i] = s[j] => i = j

\* The numbers of entries the tables of the model hold before a run.
TableLens == {0, 1, 2}

\* every sequence of distinct keys of such a length
KeySeqs == UNION {{s \in [1..n -> Keys] : Injective(s)} : n \in TableLens}

\* the file of locale lang that holds the keys ks in this order, each with
\* the locale's own text
FileOf(lang, kind, canon, ks) ==
  [kind |-> kind, canon |-> canon,
   entries |-> [i \in 1..Len(ks) |-> [k |-> ks[i], v |-> TextOf(lang, ks[i])]]]

\* what a file may be before a run: missing, malformed, or any key sequence.
\* The bytes of a base file are never compared, so the base files are drawn
\* in serialized form only.
Shapes(isBase) ==
  {[kind |-> "absent", canon |-> FALSE, ks |-> <<>>],
   [kind |-> "malformed", canon |-> FALSE, ks |-> <<>>]} \cup
  {[kind |-> "json", canon |-> c, ks |-> ks] :
     c \in (IF isBase THEN {TRUE} ELSE BOOLEAN), ks \in KeySeqs}

\* the directory of a locale before a run: missing, or holding any files
DirShapes(isBase) ==
  {[dir |-> FALSE,
    fs |-> [ns \in NsSet |-> [kind |-> "absent", canon |-> FALSE, ks |-> <<>>]]]}
  \cup {[dir |-> TRUE, fs |-> f] : f \in [NsSet -> Shapes(isBase)]}

NoReport == [printed |-> FALSE, added |-> 0, removed |-> 0]

\* types.generated.ts before generateTypes has written it
NoOutput ==
  [written |-> FALSE, I18nNamespace |-> <<>>, keyTypes |-> <<>>,
   TranslationKey |-> <<>>, TranslationPrefix |-> <<>>]

\* generateTypes has not started
InitTypeVars ==
  /\ namespaceKeys = <<>>
  /\ allKeys = <<>>
  /\ genWarnings = {}
  /\ output = NoOutput

Null == "<null>"

\* the file paths a caller may pass: empty, relative, absolute
Paths == {"", "sessions/a.jsonl", "/home/u/a.jsonl"}

\* useState(false), useState(null); the dialog is shown for some session
InitDeleteVars ==
  /\ isDeleting = FALSE
  /\ error = Null
  /\ calls = <<>>
  /\ invoked = <<>>
  /\ open = TRUE
  /\ filePath \in Paths
  /\ closedBy = "none"
  /\ callbacks = <<>>

\* A settings object is [model, mcpServers]: model is a string, NoProp when
\* the object has no such property; mcpServers is [has, servers], has telling
\* whether the property exists; a server is [name, command, hasEnv, env] and
\* env a sequence of entries [k, v] whose names and values are sequences of
\* characters.
NoProp == "<no property>"

\* the object {}
EmptySettings ==
  [model |-> NoProp, mcpServers |-> [has |-> FALSE, servers |-> <<>>]]

\* the content of one scope: null, "", text that is not JSON, or JSON text
NullContent == [kind |-> "null", settings |-> EmptySettings]

\* the allSettings prop while it is null
NotLoaded ==
  [loaded |-> FALSE, user |-> NullContent, project |-> NullContent,
   local |-> NullContent, managed |-> NullContent]

\* ExportImport before any settings are loaded and before any click
IdleExportVars ==
  /\ allSettings = NotLoaded
  /\ exportScope = "user"
  /\ excludeSensitive = TRUE
  /\ isExporting = FALSE
  /\ exportStep = "idle"
  /\ settingsToExport = [settings |-> EmptySettings, scope |-> "user", sanitized |-> FALSE]
  /\ writes = <<>>

\* A text of the editor is [kind, value, form]: kind is "blank" (nothing but
\* white space), "json" (JSON.parse accepts it) or "bad" (JSON.parse throws);
\* value names the value a "json" text denotes and form tells how it is laid
\* out: "compact" or "pretty", the layout JSON.stringify(value, null, 2) gives.
NoText == [kind |-> "none", value |-> "", form |-> ""]

\* JsonSettingsEditor mounted on blank content, before any user action
IdleEditorVars ==
  /\ initialContent = [kind |-> "blank", value |-> "", form |-> "empty"]
  /\ content = initialContent
  /\ editorError = Null
  /\ isSaving = FALSE
  /\ isDirty = FALSE
  /\ inFlight = <<>>
  /\ lastRequest = NoText
  /\ lastSaved = NoText
  /\ lastOnSave = NoText
  /\ lastAttempt = "none"

\* the user interface is not in use while a script runs
IdleUi == InitDeleteVars /\ filePath = "" /\ IdleExportVars /\ IdleEditorVars

\* the components that the script under check does not run are at rest
InitOther == InitTypeVars /\ IdleUi

InitSync ==
  /\ \E base \in DirShapes(TRUE),
        others \in [LangSet \ {BASE_LANG} -> DirShapes(FALSE)] :
       LET shape(lang) == IF lang = BASE_LANG THEN base ELSE others[lang]
       IN  /\ files = [lang \in LangSet |-> [ns \in NsSet |->
                         FileOf(lang, shape(lang).fs[ns].kind,
                                shape(lang).fs[ns].canon,
                                shape(lang).fs[ns].ks)]]
           /\ dirs = [lang \in LangSet |-> shape(lang).dir]
  /\ files0 = files
  /\ dirs0 = dirs
  /\ pc = "run"
  /\ nsIdx = 1
  /\ langIdx = 1
  /\ report = [lang \in LangSet |-> [ns \in NsSet |-> NoReport]]
  /\ totals = [lang \in LangSet |-> 0]
  /\ run = 1
  /\ writeLog = {}
  /\ accessed = {}
  /\ prevChanges = 0
  /\ thrown = "none"
  /\ flat = <<>>
  /\ allStats = <<>>
  /\ classified = {}
  /\ warnings = {}
  /\ okPrinted = FALSE
  /\ InitOther

-----------------------------------------------------------------------------
(* The Key Synchronizer: scripts/sync-i18n-keys.mjs                        *)

\* A mutant of missingKeys: no key is found missing.
missingKeys_None(en, langData) == <<>>

\* [...enKeys].filter(k => !langKeys.has(k))
missingKeys(en, langData) ==
  SelectSeq(ObjectKeys(en), LAMBDA key : ~HasKey(langData, key))

\* [...langKeys].filter(k => !enKeys.has(k))
extraKeys(en, langData) ==
  SelectSeq(ObjectKeys(langData), LAMBDA key : ~HasKey(en, key))

\* A mutant of AddMissing: the key itself is stored in place of the base text.
RECURSIVE AddMissing_KeyAsValue(_, _, _)
AddMissing_KeyAsValue(langData, en, missing) ==
  IF missing = <<>> THEN langData
  ELSE AddMissing_KeyAsValue(Put(langData, Head(missing),
                                 <<"key", Head(missing)>>),
                             en, Tail(missing))

\* A mutant of AddMissing: the missing keys are reported and not inserted.
AddMissing_Skip(langData, en, missing) == langData

\* for (const key of missingKeys) langData[key] = en[key]
\* a loop that stops after the first missing key
AddMissing_FirstOnly(langData, en, missing) ==
  IF missing = <<>> THEN langData
  ELSE Put(langData, Head(missing), Get(en, Head(missing)))

RECURSIVE AddMissing(_, _, _)
AddMissing(langData, en, missing) ==
  IF missing = <<>> THEN langData
  ELSE AddMissing(Put(langData, Head(missing), Get(en, Head(missing))),
                  en, Tail(missing))

\* for (const key of extraKeys) delete langData[key]
RECURSIVE RemoveExtra(_, _)
RemoveExtra(langData, extra) ==
  IF extra = <<>> THEN langData
  ELSE RemoveExtra(Delete(langData, Head(extra)), Tail(extra))

\* A mutant of SortByBase: the table is saved in the order it was loaded in.
SortByBase_KeepOrder(sorted, enKeys, langData) == langData

\* for (const key of Object.keys(en))
\*   if (langData[key] !== undefined) sorted[key] = langData[key]
RECURSIVE SortByBase(_, _, _)
SortByBase(sorted, enKeys, langData) ==
  IF enKeys = <<>> THEN sorted
  ELSE SortByBase(IF HasKey(langData, Head(enKeys))
                    THEN Put(sorted, Head(enKeys), Get(langData, Head(enKeys)))
                    ELSE sorted,
                  Tail(enKeys), langData)

\* A mutant of Synchronized: translated texts are overwritten by the base's.
Synchronized_Overwrite(en, langData) == en

\* the body of the language loop between the load and the save
Synchronized(en, langData) ==
  LET missing == missingKeys(en, langData)
      extra == extraKeys(en, langData)
      added == AddMissing(langData, en, missing)
      pruned == RemoveExtra(added, extra)
  IN  SortByBase(<<>>, ObjectKeys(en), pruned)

\* a loop over a list that ends with the overflow bucket
CurNs_ThenMisc == IF nsIdx = Len(NsList) THEN "misc" ELSE NsList[nsIdx]

\* lines 24, 96: the namespace of the current iteration
CurNs == NsList[nsIdx]
CurLang == TARGET_LANGUAGES[langIdx]

\* lines 24-29: the base file of the namespace does not exist: warn, continue
SkipNamespace ==
  /\ pc = "run"
  /\ nsIdx <= Len(NsList)
  /\ langIdx = 1
  /\ ~BaseExists(files[BASE_LANG][CurNs])
  /\ nsIdx' = nsIdx + 1
  /\ accessed' = accessed \cup {<<BASE_LANG, CurNs>>}
  /\ UNCHANGED <<files, dirs, pc, langIdx, report, totals, run, files0, dirs0,
                 writeLog, prevChanges>>
  /\ UNCHANGED <<thrown, splitVars, otherVars>>

\* line 31: JSON.parse of the base file throws
BaseParseError ==
  /\ pc = "run"
  /\ nsIdx <= Len(NsList)
  /\ langIdx = 1
  /\ BaseExists(files[BASE_LANG][CurNs])
  /\ files[BASE_LANG][CurNs] = Malformed
  /\ pc' = "aborted"
  /\ accessed' = accessed \cup {<<BASE_LANG, CurNs>>}
  /\ UNCHANGED <<files, dirs, nsIdx, langIdx, report, totals, run, files0,
                 dirs0, writeLog, prevChanges>>
  /\ thrown' = "SyntaxError"
  /\ UNCHANGED <<splitVars, otherVars>>

\* lines 41-47: the target file exists and JSON.parse throws
TargetParseError ==
  /\ pc = "run"
  /\ nsIdx <= Len(NsList)
  /\ BaseExists(files[BASE_LANG][CurNs])
  /\ files[BASE_LANG][CurNs] # Malformed
  /\ files[CurLang][CurNs] = Malformed
  /\ dirs' = [dirs EXCEPT ![CurLang] = TRUE]
  /\ pc' = "aborted"
  /\ accessed' = accessed \cup {<<BASE_LANG, CurNs>>, <<CurLang, CurNs>>}
  /\ UNCHANGED <<files, nsIdx, langIdx, report, totals, run, files0, dirs0,
                 writeLog, prevChanges>>
  /\ thrown' = "SyntaxError"
  /\ UNCHANGED <<splitVars, otherVars>>

\* lines 31-86: one iteration of the language loop for the loaded base table;
\* after the last language the namespace loop moves on
SyncLang ==
  /\ pc = "run"
  /\ nsIdx <= Len(NsList)
  /\ BaseExists(files[BASE_LANG][CurNs])
  /\ files[BASE_LANG][CurNs] # Malformed
  /\ files[CurLang][CurNs] # Malformed
  /\ LET en == JSONparse(files[BASE_LANG][CurNs])
         langData == IF existsSync(files[CurLang][CurNs])
                       THEN JSONparse(files[CurLang][CurNs])
                       ELSE <<>>
         sorted == Synchronized(en, langData)
     IN  /\ dirs' = [dirs EXCEPT ![CurLang] = TRUE]
         /\ files' = [files EXCEPT ![CurLang][CurNs] = JSONstringify(sorted)]
         /\ report' = [report EXCEPT ![CurLang][CurNs] =
                         [printed |-> TRUE,
                          added |-> Len(missingKeys(en, langData)),
                          removed |-> Len(extraKeys(en, langData))]]
         /\ writeLog' = writeLog \cup {<<CurLang, CurNs>>}
         /\ accessed' = accessed \cup {<<BASE_LANG, CurNs>>, <<CurLang, CurNs>>}
  /\ IF langIdx < Len(TARGET_LANGUAGES)
       THEN langIdx' = langIdx + 1 /\ nsIdx' = nsIdx
       ELSE langIdx' = 1 /\ nsIdx' = nsIdx + 1
  /\ UNCHANGED <<pc, totals, run, files0, dirs0, prevChanges>>
  /\ UNCHANGED <<thrown, splitVars, otherVars>>

VerifyLangs == <<"en">> \o TARGET_LANGUAGES

\* a final pass that counts the first namespace only
SumKeys_FirstOnly(fs, nss) ==
  IF nss = <<>> \/ ~existsSync(fs[Head(nss)]) THEN 0
  ELSE Len(JSONparse(fs[Head(nss)]))

RECURSIVE SumKeys(_, _)
SumKeys(fs, nss) ==
  IF nss = <<>> THEN 0
  ELSE (IF existsSync(fs[Head(nss)]) THEN Len(JSONparse(fs[Head(nss)])) ELSE 0)
       + SumKeys(fs, Tail(nss))

\* lines 93-104: the key total of one language; after the last one main returns
VerifyLang ==
  /\ pc = "run"
  /\ nsIdx > Len(NsList)
  /\ \A ns \in NsSet : files[VerifyLangs[langIdx]][ns] # Malformed
  /\ totals' = [totals EXCEPT ![VerifyLangs[langIdx]] =
                  SumKeys(files[VerifyLangs[langIdx]], NsList)]
  /\ IF langIdx < Len(VerifyLangs)
       THEN langIdx' = langIdx + 1 /\ pc' = pc
       ELSE langIdx' = langIdx /\ pc' = "done"
  /\ accessed' = accessed \cup {<<VerifyLangs[langIdx], ns>> : ns \in NsSet}
  /\ UNCHANGED <<files, dirs, nsIdx, report, run, files0, dirs0, writeLog, prevChanges>>
  /\ UNCHANGED <<thrown, splitVars, otherVars>>

\* line 99: JSON.parse throws in the final pass
VerifyParseError ==
  /\ pc = "run"
  /\ nsIdx > Len(NsList)
  /\ \E ns \in NsSet : files[VerifyLangs[langIdx]][ns] = Malformed
  /\ pc' = "aborted"
  /\ LET bad == CHOOSE i \in 1..Len(NsList) :
                  /\ files[VerifyLangs[langIdx]][NsList[i]] = Malformed
                  /\ \A j \in 1..(i - 1) :
                       files[VerifyLangs[langIdx]][NsList[j]] # Malformed
     IN  accessed' = accessed \cup
                       {<<VerifyLangs[langIdx], NsList[j]>> : j \in 1..bad}
  /\ UNCHANGED <<files, dirs, nsIdx, langIdx, report, totals, run, files0,
                 dirs0, writeLog, prevChanges>>
  /\ thrown' = "SyntaxError"
  /\ UNCHANGED <<splitVars, otherVars>>

\* the keys a run reported as added or removed, over all files
RECURSIVE SumOver(_, _)
SumOver(f, S) ==
  IF S = {} THEN 0
  ELSE LET x == CHOOSE y \in S : TRUE IN f[x] + SumOver(f, S \ {x})

Changes(rep) ==
  SumOver([p \in LangSet \X NsSet |-> rep[p[1]][p[2]].added + rep[p[1]][p[2]].removed],
          LangSet \X NsSet)

\* Number of runs of the script in a row.
MaxRuns == 2

\* line 107: the script is run again on the tree the last run left
Rerun ==
  /\ pc = "done"
  /\ run < MaxRuns
  /\ run' = run + 1
  /\ pc' = "run"
  /\ nsIdx' = 1
  /\ langIdx' = 1
  /\ report' = [lang \in LangSet |-> [ns \in NsSet |-> NoReport]]
  /\ totals' = [lang \in LangSet |-> 0]
  /\ files0' = files
  /\ dirs0' = dirs
  /\ writeLog' = {}
  /\ prevChanges' = prevChanges + Changes(report)
  /\ UNCHANGED <<files, dirs, accessed>>
  /\ UNCHANGED <<thrown, splitVars, otherVars>>

NextSync ==
  \/ SkipNamespace
  \/ BaseParseError
  \/ TargetParseError
  \/ SyncLang
  \/ VerifyLang
  \/ VerifyParseError
  \/ Rerun

SpecSync == InitSync /\ [][NextSync]_vars

-----------------------------------------------------------------------------
(* Properties of the Key Synchronizer                                      *)

TargetSet == LangSet \ {BASE_LANG}

NsIndex(ns) == CHOOSE i \in 1..Len(NsList) : NsList[i] = ns
TargetIndex(lang) == CHOOSE i \in 1..Len(TARGET_LANGUAGES) : TARGET_LANGUAGES[i] = lang

\* the iteration of the language loop for (lang, ns) has ended in this run
Processed(lang, ns) ==
  \/ NsIndex(ns) < nsIdx
  \/ NsIndex(ns) = nsIdx /\ TargetIndex(lang) < langIdx

\* the base file of ns existed and (lang, ns) has been synchronized in this run
Synced(lang, ns) == IsTable(files0[BASE_LANG][ns]) /\ Processed(lang, ns)

\* the table of a file, an absent file counting as the empty table
TableOf(f) == IF IsTable(f) THEN f.entries ELSE <<>>

ZeroReport == [printed |-> TRUE, added |-> 0, removed |-> 0]

\* C1: the table the Synchronizer persists for a non-base locale maps exactly
\* the keys of the base table B; a key of B that the pre-run target table T
\* holds keeps T's value, a key of B that T lacks carries B's value, and no
\* key outside B is present.
C1_Convergence ==
  \A lang \in TargetSet, ns \in NsSet :
    Synced(lang, ns) =>
      LET B == files0[BASE_LANG][ns].entries
          T == TableOf(files0[lang][ns])
          P == files[lang][ns]
      IN  /\ IsTable(P)
          /\ KeySet(P.entries) = KeySet(B)
          /\ Len(P.entries) = Len(B)
          /\ \A key \in KeySet(B) :
               Get(P.entries, key) =
                 IF HasKey(T, key) THEN Get(T, key) ELSE Get(B, key)

\* a run has ended in which one file gained a missing key beside a kept one
\* and another lost an orphaned key beside a kept one
C1_Witness ==
  /\ pc = "done"
  /\ run = 1
  /\ \E lang \in TargetSet, ns \in NsSet :
       /\ IsTable(files0[lang][ns])
       /\ report[lang][ns].added > 0
       /\ KeySet(files0[lang][ns].entries) \cap KeySet(files[lang][ns].entries) # {}
  /\ \E lang \in TargetSet, ns \in NsSet :
       /\ report[lang][ns].removed > 0
       /\ KeySet(files0[lang][ns].entries) \cap KeySet(files[lang][ns].entries) # {}

\* the tree is consistent in the sense of the claim: every target file exists
\* where the base file does and holds the key set of the base file
ConsistentKeySets(fs) ==
  \A lang \in TargetSet, ns \in NsSet :
    /\ fs[lang][ns].kind = fs[BASE_LANG][ns].kind
    /\ fs[lang][ns].kind # "malformed"
    /\ KeySet(fs[lang][ns].entries) = KeySet(fs[BASE_LANG][ns].entries)

\* C2 as stated: on a tree whose locales all hold the key set of the base, a
\* run adds nothing, removes nothing and leaves every locale file with the
\* same keys, the same values and the same key order.
C2_IdempotentOnEqualKeySets ==
  (pc = "done" /\ ConsistentKeySets(files0)) =>
    \A lang \in TargetSet, ns \in NsSet :
      /\ report[lang][ns].added = 0
      /\ report[lang][ns].removed = 0
      /\ files[lang][ns].entries = files0[lang][ns].entries

\* C2 as amended: a target file that holds the keys of the base file in the
\* order of the base file gets no insertion and no deletion and keeps its
\* keys, values and key order; if it was in serialized form its bytes are
\* unchanged.  With the key set of the base in any order there is still no
\* insertion and no deletion.
C2_IdempotentOnEqualKeyOrder ==
  \A lang \in TargetSet, ns \in NsSet :
    (Synced(lang, ns) /\ IsTable(files0[lang][ns])) =>
      LET B == files0[BASE_LANG][ns].entries
          T == files0[lang][ns].entries
      IN  /\ KeySet(T) = KeySet(B) => report[lang][ns] = ZeroReport
          /\ ObjectKeys(T) = ObjectKeys(B) =>
               /\ files[lang][ns].entries = T
               /\ files0[lang][ns].canon => files[lang][ns] = files0[lang][ns]

\* a run has ended on a tree with a two-key target file in the base's order
\* and in serialized form
C2_Witness ==
  /\ pc = "done"
  /\ run = 1
  /\ \E lang \in TargetSet, ns \in NsSet :
       /\ IsTable(files0[BASE_LANG][ns])
       /\ IsTable(files0[lang][ns])
       /\ files0[lang][ns].canon
       /\ Len(files0[lang][ns].entries) >= 2
       /\ ObjectKeys(files0[lang][ns].entries) =
            ObjectKeys(files0[BASE_LANG][ns].entries)

\* C3: after the run the key sequence of a synchronized locale file is the
\* key sequence of the base file, whatever the order of the target file was.
C3_OrderPreservation ==
  \A lang \in TargetSet, ns \in NsSet :
    Synced(lang, ns) =>
      ObjectKeys(files[lang][ns].entries) =
        ObjectKeys(files[BASE_LANG][ns].entries)

\* a run has ended that rewrote a file holding the base's keys in another order
C3_Witness ==
  /\ pc = "done"
  /\ \E lang \in TargetSet, ns \in NsSet :
       /\ Synced(lang, ns)
       /\ KeySet(files0[lang][ns].entries) = KeySet(files0[BASE_LANG][ns].entries)
       /\ ObjectKeys(files0[lang][ns].entries) #
            ObjectKeys(files0[BASE_LANG][ns].entries)

\* C4 as stated: once a run has completed, every locale's table has the key
\* set of the base table for every declared namespace, those whose base file
\* did not exist included.
C4_KeySetsEqualEverywhere ==
  pc = "done" =>
    \A lang \in TargetSet, ns \in NsSet :
      KeySet(TableOf(files[lang][ns])) = KeySet(TableOf(files[BASE_LANG][ns]))

\* C4 as amended: once a run has completed, every locale's file of a declared
\* namespace whose base file exists is a table with the key set of the base
\* table.
C4_KeySetsEqualWhereBaseExists ==
  pc = "done" =>
    \A lang \in TargetSet, ns \in NsSet :
      existsSync(files[BASE_LANG][ns]) =>
        /\ IsTable(files[lang][ns])
        /\ KeySet(files[lang][ns].entries) = KeySet(files[BASE_LANG][ns].entries)

\* a run has completed that had to add and to remove keys
C4_Witness ==
  /\ pc = "done"
  /\ run = 1
  /\ \E lang \in TargetSet, ns \in NsSet :
       report[lang][ns].added > 0 /\ report[lang][ns].removed > 0

\* C5: no file of the base locale is created, written, reordered or deleted
\* by a run, and every write goes to a file of a non-base locale.
C5_BaseReadOnly ==
  /\ files[BASE_LANG] = files0[BASE_LANG]
  /\ dirs[BASE_LANG] = dirs0[BASE_LANG]
  /\ \A w \in writeLog : w[1] # BASE_LANG

\* a run has completed that wrote a target file from an existing base file
C5_Witness ==
  /\ pc = "done"
  /\ \E lang \in TargetSet, ns \in NsSet :
       /\ <<lang, ns>> \in writeLog
       /\ files[lang][ns] # files0[lang][ns]
       /\ Len(files[BASE_LANG][ns].entries) > 0

\* C6: a declared namespace whose base file is missing is skipped: no file of
\* any locale for it is created, modified or deleted, no directory is made on
\* its account, the run does not fail at it, and the namespaces after it are
\* processed.
C6_MissingBaseSkipped ==
  /\ \A ns \in NsSet :
       ~existsSync(files0[BASE_LANG][ns]) =>
         /\ \A lang \in LangSet : files[lang][ns] = files0[lang][ns]
         /\ \A lang \in LangSet : <<lang, ns>> \notin writeLog
         /\ (pc = "aborted" /\ nsIdx <= Len(NsList)) => NsList[nsIdx] # ns
  /\ (\A ns \in NsSet :
        NsIndex(ns) <= nsIdx => ~existsSync(files0[BASE_LANG][ns]))
       => dirs = dirs0
  /\ \A ns \in NsSet :
       (pc = "done" /\ IsTable(files0[BASE_LANG][ns])) =>
         \A lang \in TargetSet : <<lang, ns>> \in writeLog

\* a run has completed that skipped the first namespace, whose target file
\* holds keys, and synchronized the second
C6_Witness ==
  /\ pc = "done"
  /\ ~existsSync(files0[BASE_LANG][NsList[1]])
  /\ \E lang \in TargetSet :
       /\ Len(TableOf(files[lang][NsList[1]])) > 0
       /\ <<lang, NsList[2]>> \in writeLog

\* C7: a run that immediately follows a completed run reports no added and no
\* removed key and leaves every file as the earlier run left it.
C7_SecondRunIdempotent ==
  run >= 2 =>
    /\ files = files0
    /\ dirs = dirs0
    /\ \A lang \in LangSet, ns \in NsSet :
         report[lang][ns].added = 0 /\ report[lang][ns].removed = 0

\* a second run has completed after a first run that added or removed keys
C7_Witness ==
  /\ run = 2
  /\ pc = "done"
  /\ prevChanges > 0
  /\ \E lang \in TargetSet, ns \in NsSet : report[lang][ns] = ZeroReport


\* the position of a language in the final pass
VerifyIndex(lang) == CHOOSE i \in 1..Len(VerifyLangs) : VerifyLangs[i] = lang

\* the final pass has printed the total of lang in this run
TotalPrinted(lang) ==
  /\ nsIdx > Len(NsList)
  /\ pc = "done" \/ VerifyIndex(lang) < langIdx

\* what the run has printed so far: the warning of a skipped namespace
\* (line 27), the added and removed counts of a file (lines 59, 66) and the
\* total of a language (line 103)
OutputLines ==
  {[kind |-> "skipped", lang |-> BASE_LANG, ns |-> ns, value |-> 0] :
     ns \in {n \in NsSet : NsIndex(n) < nsIdx /\ ~existsSync(files0[BASE_LANG][n])}}
  \cup
  {[kind |-> "added", lang |-> p[1], ns |-> p[2], value |-> report[p[1]][p[2]].added] :
     p \in {q \in LangSet \X NsSet : report[q[1]][q[2]].added > 0}}
  \cup
  {[kind |-> "removed", lang |-> p[1], ns |-> p[2], value |-> report[p[1]][p[2]].removed] :
     p \in {q \in LangSet \X NsSet : report[q[1]][q[2]].removed > 0}}
  \cup
  {[kind |-> "total", lang |-> lang, ns |-> "", value |-> totals[lang]] :
     lang \in {l \in LangSet : TotalPrinted(l)}}

\* the number of keys of the persisted file of (lang, ns), counted from the
\* tree; a file that does not exist holds none
KeyCount(lang, ns) == Cardinality(KeySet(TableOf(files[lang][ns])))

C14_AbortedRunWroteNothing ==
  pc = "aborted" => files = files0

\* C14 (amended): reads and writes alternate, file by file.  When a run
\* aborts on a malformed file, the target files of the (locale, namespace)
\* pairs handled before the failing read have been replaced, each by a whole
\* serialized table with exactly the keys of its base file, and every other
\* file is as it was when the run started.
C14_AbortKeepsEarlierWrites ==
  pc = "aborted" =>
    \A lang \in LangSet, ns \in NsSet :
      IF lang # BASE_LANG /\ Synced(lang, ns)
        THEN /\ <<lang, ns>> \in writeLog
             /\ IsTable(files[lang][ns])
             /\ files[lang][ns].canon
             /\ KeySet(files[lang][ns].entries) = KeySet(files0[BASE_LANG][ns].entries)
        ELSE /\ <<lang, ns>> \notin writeLog
             /\ files[lang][ns] = files0[lang][ns]

\* a run was aborted by a malformed file of the second namespace after it
\* had changed a file of the first
C14_Witness ==
  /\ pc = "aborted"
  /\ thrown = "SyntaxError"
  /\ nsIdx = 2
  /\ \E lang \in TargetSet :
       /\ <<lang, NsList[1]>> \in writeLog
       /\ files[lang][NsList[1]] # files0[lang][NsList[1]]
       /\ Len(missingKeys(files0[BASE_LANG][NsList[1]].entries,
                          TableOf(files0[lang][NsList[1]]))) = 2

-----------------------------------------------------------------------------
(* The Namespace Splitter: getNamespace, splitLanguage, main               *)

PREFIX_TO_NAMESPACE ==
  [common |-> "common", status |-> "common", time |-> "common",
   copyButton |-> "common",
   analytics |-> "analytics",
   session |-> "session", project |-> "session",
   settingsManager |-> "settings", settings |-> "settings",
   folderPicker |-> "settings",
   tools |-> "tools", toolResult |-> "tools", toolUseRenderer |-> "tools",
   collapsibleToolResult |-> "tools",
   error |-> "error",
   message |-> "message", messages |-> "message", messageViewer |-> "message",
   messageContentDisplay |-> "message",
   advancedTextDiff |-> "renderers", agentProgressGroup |-> "renderers",
   agentTaskGroup |-> "renderers", assistantMessageDetails |-> "renderers",
   bashCodeExecutionToolResultRenderer |-> "renderers",
   captureMode |-> "renderers", citationRenderer |-> "renderers",
   claudeContentArrayRenderer |-> "renderers",
   claudeSessionHistoryRenderer |-> "renderers",
   claudeToolUseDisplay |-> "renderers",
   codebaseContextRenderer |-> "renderers",
   codeExecutionToolResultRenderer |-> "renderers",
   commandOutputDisplay |-> "renderers", commandRenderer |-> "renderers",
   contentArray |-> "renderers", diffViewer |-> "renderers",
   fileContent |-> "renderers", fileEditRenderer |-> "renderers",
   fileHistorySnapshotRenderer |-> "renderers",
   fileListRenderer |-> "renderers", gitWorkflowRenderer |-> "renderers",
   globalSearch |-> "renderers", imageRenderer |-> "renderers",
   mcpRenderer |-> "renderers", progressRenderer |-> "renderers",
   queueOperationRenderer |-> "renderers", structuredPatch |-> "renderers",
   summaryMessageRenderer |-> "renderers",
   systemMessageRenderer |-> "renderers", taskNotification |-> "renderers",
   taskOperation |-> "renderers", terminalStreamRenderer |-> "renderers",
   textEditorCodeExecutionToolResultRenderer |-> "renderers",
   thinkingRenderer |-> "renderers",
   toolSearchToolResultRenderer |-> "renderers",
   webFetchToolResultRenderer |-> "renderers",
   webSearchRenderer |-> "renderers",
   updateModal |-> "update", updateSettingsModal |-> "update",
   updateIntroModal |-> "update", simpleUpdateModal |-> "update",
   upToDateNotification |-> "update",
   feedback |-> "feedback",
   recentEdits |-> "recentEdits"]

\* The properties an object literal inherits from Object.prototype: a lookup
\* obj[name] of one of these names on an object without such an own property
\* yields the inherited member, a function or an object.
ObjectPrototype ==
  {"constructor", "hasOwnProperty", "isPrototypeOf", "propertyIsEnumerable",
   "toLocaleString", "toString", "valueOf", "__proto__", "__defineGetter__",
   "__defineSetter__", "__lookupGetter__", "__lookupSetter__"}

Undefined == "<undefined>"
InheritedMember == "<member of Object.prototype>"

\* obj[name] on an object literal: own property, inherited member, undefined
Lookup(obj, name) ==
  IF name \in DOMAIN obj THEN obj[name]
  ELSE IF name \in ObjectPrototype THEN InheritedMember
  ELSE Undefined

\* key.split('.')[0]; a key is held as the sequence of its segments
Prefix(key) == key[1]

\* PREFIX_TO_NAMESPACE[prefix] || 'misc'
getNamespace(key) ==
  LET found == Lookup(PREFIX_TO_NAMESPACE, Prefix(key))
  IN  IF found = Undefined THEN "misc" ELSE found

getKeyWithinNamespace(key) == key

\* [...NAMESPACES, 'misc']
AllNamespaces == NAMESPACES \o <<"misc">>
AllNsSet == Range(AllNamespaces)

\* The keys of the legacy flat files of the model, in the order of their
\* texts "analytics.x" < "common.ok" < "constructor.name" < "settings" <
\* "status.on" < "zzz.q" (UTF-16 code units, the order of Array.sort).
FlatKeyList ==
  << <<"analytics", "x">>, <<"common", "ok">>, <<"constructor", "name">>,
     <<"settings">>, <<"status", "on">>, <<"zzz", "q">> >>
FlatKeys == Range(FlatKeyList)

\* Number of entries of a legacy flat file.
MaxFlatLen == 2

FlatKeySeqs ==
  UNION {{s \in [1..n -> FlatKeys] : Injective(s)} : n \in 0..MaxFlatLen}

\* what the legacy file of a locale may be: missing, malformed, or a flat
\* table
FlatShapes ==
  {[kind |-> "absent", canon |-> FALSE, ks |-> <<>>],
   [kind |-> "malformed", canon |-> FALSE, ks |-> <<>>]} \cup
  {[kind |-> "json", canon |-> TRUE, ks |-> ks] : ks \in FlatKeySeqs}

\* Object.keys(nsData).sort()
SortKeys(keySet) == SelectSeq(FlatKeyList, LAMBDA key : key \in keySet)

\* the first entry of data whose namespace is no property of namespaceData
\* (0 if there is none): namespaceData[ns][nsKey] = value throws a TypeError
FirstUnclassifiable(data) ==
  LET bad == {i \in 1..Len(data) : getNamespace(data[i].k) \notin AllNsSet}
  IN  IF bad = {} THEN 0 ELSE CHOOSE i \in bad : \A j \in bad : i <= j

\* lines 170-180: namespaceData after the classification loop
RECURSIVE Classify(_, _)
Classify(namespaceData, data) ==
  IF data = <<>> THEN namespaceData
  ELSE LET ns == getNamespace(Head(data).k)
           nsKey == getKeyWithinNamespace(Head(data).k)
       IN  Classify([namespaceData EXCEPT
                       ![ns] = Put(namespaceData[ns], nsKey, Head(data).v)],
                    Tail(data))

EmptyNamespaceData == [ns \in AllNsSet |-> <<>>]

\* lines 190-194: the object saved for one namespace
SortedTable(nsData) ==
  LET keys == SortKeys(KeySet(nsData))
  IN  [i \in 1..Len(keys) |-> [k |-> keys[i], v |-> Get(nsData, keys[i])]]

\* lines 183-198: the files of the output directory after the save loop
SavedFiles(old, namespaceData) ==
  [ns \in AllNsSet |->
     IF Len(namespaceData[ns]) = 0 THEN old[ns]
     ELSE JSONstringify(SortedTable(namespaceData[ns]))]

\* lines 183-200: stats, with an entry for every namespace that holds keys
StatsOf(namespaceData) ==
  [ns \in {n \in AllNsSet : Len(namespaceData[n]) # 0} |->
     Len(namespaceData[ns])]

\* the calls of getNamespace made for the first n entries of data
Calls(data, n) == {[key |-> data[i].k, ns |-> getNamespace(data[i].k)] : i \in 1..n}

\* A mutant of OnThrow: main catches the exception and goes on with the next
\* language.
OnThrow_Caught(i) == [pc |-> "split", langIdx |-> i + 1]

\* lines 213-221: main does not catch what splitLanguage throws: the script
\* ends inside the iteration for language i
OnThrow(i) == [pc |-> "aborted", langIdx |-> i]

SplitLang == LangList[langIdx]

\* line 163: the legacy file is missing (readFileSync throws) or malformed
\* (JSON.parse throws)
SplitReadError ==
  /\ pc = "split"
  /\ langIdx <= Len(LangList)
  /\ ~IsTable(flat[SplitLang])
  /\ thrown' = IF flat[SplitLang] = Absent THEN "ENOENT" ELSE "SyntaxError"
  /\ pc' = OnThrow(langIdx).pc
  /\ langIdx' = OnThrow(langIdx).langIdx
  /\ UNCHANGED <<files, dirs, dirs0, syncVars, splitVars, otherVars>>

\* lines 163-179: the namespace of a key is no property of namespaceData
SplitTypeError ==
  /\ pc = "split"
  /\ langIdx <= Len(LangList)
  /\ IsTable(flat[SplitLang])
  /\ LET data == JSONparse(flat[SplitLang])
     IN  /\ FirstUnclassifiable(data) # 0
         /\ classified' = classified \cup Calls(data, FirstUnclassifiable(data))
  /\ dirs' = [dirs EXCEPT ![SplitLang] = TRUE]
  /\ thrown' = "TypeError"
  /\ pc' = OnThrow(langIdx).pc
  /\ langIdx' = OnThrow(langIdx).langIdx
  /\ UNCHANGED otherVars
  /\ UNCHANGED <<files, dirs0, syncVars, flat, allStats, warnings, okPrinted>>

\* lines 213-221 and 158-201: one language is split
SplitLanguage ==
  /\ pc = "split"
  /\ langIdx <= Len(LangList)
  /\ IsTable(flat[SplitLang])
  /\ LET data == JSONparse(flat[SplitLang])
         namespaceData == Classify(EmptyNamespaceData, data)
     IN  /\ FirstUnclassifiable(data) = 0
         /\ classified' = classified \cup Calls(data, Len(data))
         /\ files' = [files EXCEPT
                        ![SplitLang] = SavedFiles(files[SplitLang], namespaceData)]
         /\ allStats' = (SplitLang :> StatsOf(namespaceData)) @@ allStats
  /\ dirs' = [dirs EXCEPT ![SplitLang] = TRUE]
  /\ langIdx' = langIdx + 1
  /\ UNCHANGED otherVars
  /\ UNCHANGED <<dirs0, pc, thrown, syncVars, flat, warnings, okPrinted>>

\* baseStats[ns] || 0, allStats[lang][ns] || 0
CountOf(stats, ns) == IF ns \in DOMAIN stats THEN stats[ns] ELSE 0

\* lines 223-254: the consistency check and the summary
SplitVerify ==
  /\ pc = "split"
  /\ langIdx > Len(LangList)
  /\ LET baseStats == allStats["en"]
         found == {w \in (LangSet \ {"en"}) \X DOMAIN baseStats :
                     CountOf(baseStats, w[2]) # CountOf(allStats[w[1]], w[2])}
     IN  /\ warnings' = found
         /\ okPrinted' = (found = {})
  /\ pc' = "done"
  /\ UNCHANGED otherVars
  /\ UNCHANGED <<files, dirs, dirs0, langIdx, thrown, syncVars, flat, allStats,
                 classified>>

InitSplit ==
  /\ \E shape \in [LangSet -> FlatShapes] :
       flat = [lang \in LangSet |->
                 FileOf(lang, shape[lang].kind, shape[lang].canon, shape[lang].ks)]
  /\ files = [lang \in LangSet |-> [ns \in AllNsSet |-> Absent]]
  /\ dirs \in [LangSet -> BOOLEAN]
  /\ dirs0 = dirs
  /\ pc = "split"
  /\ langIdx = 1
  /\ thrown = "none"
  /\ allStats = <<>>
  /\ classified = {}
  /\ warnings = {}
  /\ okPrinted = FALSE
  /\ nsIdx = 1
  /\ report = <<>>
  /\ totals = <<>>
  /\ run = 1
  /\ files0 = files
  /\ writeLog = {}
  /\ accessed = {}
  /\ prevChanges = 0
  /\ InitOther

NextSplit ==
  \/ SplitReadError
  \/ SplitTypeError
  \/ SplitLanguage
  \/ SplitVerify

SpecSplit == InitSplit /\ [][NextSplit]_vars

-----------------------------------------------------------------------------
(* Properties of the Namespace Splitter                                    *)

LangIndex(lang) == CHOOSE i \in 1..Len(LangList) : LangList[i] = lang

\* splitLanguage(lang) has been called and has returned or thrown
SplitCalled(lang) ==
  \/ LangIndex(lang) < langIdx
  \/ pc = "aborted" /\ LangIndex(lang) = langIdx

\* every key of the flat table of lang is held by a namespace file of lang
NamespaceFilesWritten(lang) ==
  \A key \in KeySet(flat[lang].entries) :
    \E ns \in AllNsSet :
      IsTable(files[lang][ns]) /\ HasKey(files[lang][ns].entries, key)

NothingWritten(lang) == \A ns \in AllNsSet : files[lang][ns] = Absent

\* C8 as stated: every call of getNamespace returns one of the eleven declared
\* namespaces or 'misc', and returns 'misc' exactly when the first segment of
\* the key is no entry of the prefix table.
C8_ClassificationTotal ==
  \A c \in classified :
    /\ c.ns \in AllNsSet
    /\ c.ns = "misc" <=> Prefix(c.key) \notin DOMAIN PREFIX_TO_NAMESPACE

\* C9 as stated: for any flat table that splitLanguage is called on, the
\* namespace tables it builds are pairwise key-disjoint, their union is the
\* key set of the flat table, each key keeps its value and sits in the table
\* of the namespace getNamespace assigns to it.
C9_PartitionComplete ==
  \A lang \in LangSet :
    (SplitCalled(lang) /\ IsTable(flat[lang])) =>
      LET data == flat[lang].entries
          table(ns) == TableOf(files[lang][ns])
      IN  /\ \A n1, n2 \in AllNsSet :
               n1 # n2 => KeySet(table(n1)) \cap KeySet(table(n2)) = {}
          /\ UNION {KeySet(table(ns)) : ns \in AllNsSet} = KeySet(data)
          /\ \A ns \in AllNsSet : \A key \in KeySet(table(ns)) :
               /\ Get(table(ns), key) = Get(data, key)
               /\ getNamespace(key) = ns

ReadFailed == thrown \in {"ENOENT", "SyntaxError"}

\* C10 as stated: when the legacy file of one locale is missing or malformed,
\* every other locale whose legacy file can be split, those iterated after
\* the failing one included, has its namespace files written.
C10_OtherLocalesStillWritten ==
  ReadFailed =>
    \A lang \in LangSet :
      (LangIndex(lang) # langIdx /\ IsTable(flat[lang])
         /\ FirstUnclassifiable(flat[lang].entries) = 0)
        => NamespaceFilesWritten(lang)

\* C10 as amended: when the legacy file of a locale is missing or malformed
\* the script ends there: the locales iterated before it have their namespace
\* files written, the failing locale and the locales iterated after it have
\* no file written and no directory made.
C10_AbortAtFailingLocale ==
  ReadFailed =>
    /\ pc = "aborted"
    /\ \A lang \in LangSet :
         /\ LangIndex(lang) < langIdx => NamespaceFilesWritten(lang)
         /\ LangIndex(lang) >= langIdx =>
              NothingWritten(lang) /\ dirs[lang] = dirs0[lang]

\* the legacy file of the second locale could not be read after the first
\* locale, whose flat table holds keys, was split
C10_Witness ==
  /\ ReadFailed
  /\ langIdx = 2
  /\ Len(flat[LangList[1]].entries) > 0
  /\ \E ns \in AllNsSet : IsTable(files[LangList[1]][ns])


\* the number of keys the Splitter wrote for namespace ns of lang
WrittenCount(lang, ns) == Len(TableOf(files[lang][ns]))

\* the (locale, namespace) pairs whose written count differs from the base's
MismatchingPairs ==
  {w \in (LangSet \ {BASE_LANG}) \X AllNsSet :
     WrittenCount(w[1], w[2]) # WrittenCount(BASE_LANG, w[2])}

\* C20: the Splitter prints that all per-namespace key counts match exactly
\* when, for every non-base locale and every namespace, misc included, the
\* number of keys written equals the number written for the base locale, and
\* otherwise prints one warning for each mismatching pair.
C20_VerdictMatchesWrittenCounts ==
  pc = "done" =>
    /\ okPrinted <=> MismatchingPairs = {}
    /\ warnings = MismatchingPairs

-----------------------------------------------------------------------------
(* The Type Generator: generateTypes (scripts/generate-i18n-types.mjs)     *)

\* `${toPascalCase(ns)}Keys` for the declared namespaces: no namespace name
\* holds '-' or '_', so toPascalCase raises the first letter only
typeName ==
  [common |-> "CommonKeys", analytics |-> "AnalyticsKeys",
   session |-> "SessionKeys", settings |-> "SettingsKeys",
   tools |-> "ToolsKeys", error |-> "ErrorKeys", message |-> "MessageKeys",
   renderers |-> "RenderersKeys", update |-> "UpdateKeys",
   feedback |-> "FeedbackKeys", recentEdits |-> "RecentEditsKeys"]

\* the place of a key in the order of its UTF-16 code units
KeyRank(k) == CHOOSE i \in 1..Len(KeyNames) : KeyNames[i] = k

InsertSorted(sorted, k) ==
  LET n == Cardinality({i \in 1..Len(sorted) : KeyRank(sorted[i]) <= KeyRank(k)})
  IN  SubSeq(sorted, 1, n) \o <<k>> \o SubSeq(sorted, n + 1, Len(sorted))

\* Array.prototype.sort() without a comparator; equal strings all stay
RECURSIVE sort(_)
sort(keys) ==
  IF keys = <<>> THEN <<>>
  ELSE InsertSorted(sort(SubSeq(keys, 1, Len(keys) - 1)), keys[Len(keys)])

\* key.split('.')[0]: no key of KeyNames holds a '.', the prefix is the key
KeyPrefix(key) == key

\* groupKeysByPrefix(keys).keys(): the prefixes of the keys
groupKeysByPrefix(keys) == {KeyPrefix(keys[i]) : i \in 1..Len(keys)}

RECURSIVE SetToSeq(_)
SetToSeq(S) ==
  IF S = {} THEN <<>>
  ELSE LET x == CHOOSE y \in S : TRUE IN <<x>> \o SetToSeq(S \ {x})

\* an I18nNamespace that lists the namespaces whose file was read
I18nNamespaceMembers_LoadedOnly(nsKeys) ==
  [i \in 1..Len(nsKeys) |-> nsKeys[i].ns]

\* line 145: the members of I18nNamespace
I18nNamespaceMembers(nsKeys) == NsList

\* lines 150-160: one key type per entry of namespaceKeys
KeyTypes(nsKeys) ==
  [i \in 1..Len(nsKeys) |->
     [name |-> typeName[nsKeys[i].ns], members |-> sort(nsKeys[i].keys)]]

\* lines 96-101: the base file of the namespace does not exist: warn, continue
GenWarnMissing ==
  /\ pc = "generate"
  /\ nsIdx <= Len(NsList)
  /\ ~existsSync(files[BASE_LANG][CurNs])
  /\ genWarnings' = genWarnings \cup {CurNs}
  /\ nsIdx' = nsIdx + 1
  /\ UNCHANGED <<namespaceKeys, allKeys, output>>
  /\ UNCHANGED uiVars
  /\ UNCHANGED <<files, dirs, dirs0, pc, langIdx, thrown, splitVars>>
  /\ accessed' = accessed \cup {<<BASE_LANG, CurNs>>}
  /\ UNCHANGED <<report, totals, run, files0, writeLog, prevChanges>>

\* line 103: JSON.parse throws; nothing is written
GenParseError ==
  /\ pc = "generate"
  /\ nsIdx <= Len(NsList)
  /\ files[BASE_LANG][CurNs] = Malformed
  /\ pc' = "aborted"
  /\ thrown' = "SyntaxError"
  /\ UNCHANGED <<typeVars, nsIdx>>
  /\ UNCHANGED uiVars
  /\ UNCHANGED <<files, dirs, dirs0, langIdx, splitVars>>
  /\ accessed' = accessed \cup {<<BASE_LANG, CurNs>>}
  /\ UNCHANGED <<report, totals, run, files0, writeLog, prevChanges>>

\* lines 103-106: the keys of the namespace are recorded
GenCollect ==
  /\ pc = "generate"
  /\ nsIdx <= Len(NsList)
  /\ IsTable(files[BASE_LANG][CurNs])
  /\ LET keys == ObjectKeys(JSONparse(files[BASE_LANG][CurNs]))
     IN  /\ namespaceKeys' = Append(namespaceKeys, [ns |-> CurNs, keys |-> keys])
         /\ allKeys' = allKeys \o keys
  /\ nsIdx' = nsIdx + 1
  /\ UNCHANGED <<genWarnings, output>>
  /\ UNCHANGED uiVars
  /\ UNCHANGED <<files, dirs, dirs0, pc, langIdx, thrown, splitVars>>
  /\ accessed' = accessed \cup {<<BASE_LANG, CurNs>>}
  /\ UNCHANGED <<report, totals, run, files0, writeLog, prevChanges>>

\* lines 110-189: the file is composed and written; the two sort() calls
\* sort the arrays of namespaceKeys and allKeys in place
GenEmit ==
  /\ pc = "generate"
  /\ nsIdx > Len(NsList)
  /\ output' = [written |-> TRUE,
                I18nNamespace |-> I18nNamespaceMembers(namespaceKeys),
                keyTypes |-> KeyTypes(namespaceKeys),
                TranslationKey |-> sort(allKeys),
                TranslationPrefix |-> sort(SetToSeq(groupKeysByPrefix(allKeys)))]
  /\ namespaceKeys' = [i \in 1..Len(namespaceKeys) |->
                         [ns |-> namespaceKeys[i].ns,
                          keys |-> sort(namespaceKeys[i].keys)]]
  /\ allKeys' = sort(allKeys)
  /\ pc' = "done"
  /\ UNCHANGED <<genWarnings, nsIdx>>
  /\ UNCHANGED uiVars
  /\ UNCHANGED <<files, dirs, dirs0, langIdx, thrown, splitVars>>
  /\ UNCHANGED accessed
  /\ UNCHANGED <<report, totals, run, files0, writeLog, prevChanges>>

\* the base directory holds any files; generateTypes reads nothing else
InitTypes ==
  /\ \E base \in [NsSet -> Shapes(TRUE)] :
       files = [lang \in LangSet |-> [ns \in NsSet |->
                  IF lang = BASE_LANG
                    THEN FileOf(lang, base[ns].kind, base[ns].canon, base[ns].ks)
                    ELSE Absent]]
  /\ dirs = [lang \in LangSet |-> TRUE]
  /\ dirs0 = dirs
  /\ files0 = files
  /\ pc = "generate"
  /\ nsIdx = 1
  /\ langIdx = 1
  /\ thrown = "none"
  /\ InitTypeVars
  /\ IdleUi
  /\ report = <<>>
  /\ totals = <<>>
  /\ run = 1
  /\ writeLog = {}
  /\ accessed = {}
  /\ prevChanges = 0
  /\ flat = <<>>
  /\ allStats = <<>>
  /\ classified = {}
  /\ warnings = {}
  /\ okPrinted = FALSE

NextTypes ==
  \/ GenWarnMissing
  \/ GenParseError
  \/ GenCollect
  \/ GenEmit

SpecTypes == InitTypes /\ [][NextTypes]_vars

-----------------------------------------------------------------------------
(* Properties of the Type Generator                                        *)

\* how many members of a union are the key k
Occurrences(union, k) == Cardinality({i \in 1..Len(union) : union[i] = k})

\* the keys of the base-locale namespace files on disk
BaseKeys == UNION {KeySet(TableOf(files[BASE_LANG][ns])) : ns \in NsSet}

\* the key type emitted for namespace ns, if any
KeyTypesOf(ns) ==
  {i \in 1..Len(output.keyTypes) : output.keyTypes[i].name = typeName[ns]}

\* C12: in the generated file every key of a base-locale namespace file is a
\* member of TranslationKey exactly once, and no other key is a member.
C12_EveryKeyExactlyOnce ==
  output.written =>
    \A k \in Keys :
      Occurrences(output.TranslationKey, k) = (IF k \in BaseKeys THEN 1 ELSE 0)

\* C13 (as stated): a declared namespace without a base file is warned about
\* and is a member neither of I18nNamespace nor of the key types.
C13_MissingNamespaceOmittedEverywhere ==
  output.written =>
    \A ns \in NsSet :
      ~existsSync(files[BASE_LANG][ns]) =>
        /\ ns \in genWarnings
        /\ \A i \in 1..Len(output.I18nNamespace) : output.I18nNamespace[i] # ns
        /\ KeyTypesOf(ns) = {}

\* C13 (amended): a declared namespace without a base file is warned about
\* and never aborts the generation; it has no key type and adds no key to
\* TranslationKey, but I18nNamespace lists every declared namespace, that one
\* included.
C13_MissingNamespaceStaysDeclared ==
  /\ pc = "aborted" => \E ns \in NsSet : files[BASE_LANG][ns] = Malformed
  /\ \A ns \in NsSet :
       (~existsSync(files[BASE_LANG][ns]) /\ NsIndex(ns) < nsIdx) =>
         ns \in genWarnings
  /\ output.written =>
       /\ output.I18nNamespace = NsList
       /\ {output.TranslationKey[i] : i \in 1..Len(output.TranslationKey)} = BaseKeys
       /\ \A ns \in NsSet :
            IF existsSync(files[BASE_LANG][ns])
              THEN \E i \in KeyTypesOf(ns) :
                     {output.keyTypes[i].members[j] :
                        j \in 1..Len(output.keyTypes[i].members)}
                       = KeySet(TableOf(files[BASE_LANG][ns]))
              ELSE KeyTypesOf(ns) = {}

\* the file was generated while one namespace had no base file and another
\* had a base file with keys
C13_Witness ==
  /\ output.written
  /\ pc = "done"
  /\ \E missing \in NsSet, present \in NsSet :
       /\ ~existsSync(files[BASE_LANG][missing])
       /\ missing \in genWarnings
       /\ KeySet(TableOf(files[BASE_LANG][present])) # {}

-----------------------------------------------------------------------------
(* Session deletion: useSessionDelete and DeleteSessionDialog              *)
(* A deleteSession call runs up to its await in the event that makes it;   *)
(* when the request settles, the rest of deleteSession and the rest of the *)
(* caller's handler run as microtasks before any other event is handled,   *)
(* so each of the two parts is one step.  The dialog is given an onSuccess *)
(* that returns normally, and its parent sets open to what onOpenChange    *)
(* is called with.                                                         *)

\* while the scripts are not running
IdleScripts ==
  /\ files = <<>> /\ dirs = <<>> /\ dirs0 = <<>> /\ files0 = <<>>
  /\ pc = "ui" /\ nsIdx = 1 /\ langIdx = 1 /\ thrown = "none"
  /\ report = <<>> /\ totals = <<>> /\ run = 1
  /\ writeLog = {} /\ accessed = {} /\ prevChanges = 0
  /\ flat = <<>> /\ allStats = <<>> /\ classified = {}
  /\ warnings = {} /\ okPrinted = FALSE
  /\ InitTypeVars

scriptVars ==
  <<files, dirs, dirs0, pc, langIdx, thrown, syncVars, splitVars, typeVars>>

\* Number of deleteSession calls of a behaviour.
MaxCalls == 3

InvalidPathMessage == "Invalid file path: must be an absolute path"

\* isAbsolutePath of utils/pathUtils
isAbsolutePath(path) == path = "/home/u/a.jsonl"

\* a check that only rejects the empty path
ValidPath_NonEmpty(path) == path # ""

\* line 185: the negation of !filePath || !isAbsolutePath(filePath)
ValidPath(path) == path # "" /\ isAbsolutePath(path)

\* what invoke may reject with: an Error, a string, another object
Rejections ==
  {[kind |-> "Error", text |-> "permission denied"],
   [kind |-> "string", text |-> "session not found"],
   [kind |-> "object", text |-> ""]}

\* line 200: err instanceof Error ? err.message : String(err)
errorMessage(err) ==
  CASE err.kind = "Error" -> err.text
    [] err.kind = "string" -> err.text
    [] OTHER -> "[object Object]"

\* lines 184-197: deleteSession up to its await
deleteSession(via, path) ==
  /\ Len(calls) < MaxCalls
  /\ IF ~ValidPath(path)
       THEN /\ error' = InvalidPathMessage
            /\ calls' = Append(calls, [path |-> path, via |-> via, status |-> "invalid"])
            /\ UNCHANGED <<isDeleting, invoked>>
       ELSE /\ isDeleting' = TRUE
            /\ error' = Null
            /\ invoked' = Append(invoked, path)
            /\ calls' = Append(calls, [path |-> path, via |-> via, status |-> "pending"])

\* a handler that runs its success steps however deleteSession ended
handleDeleteCallbacks_Always(c, settled) ==
  <<[cb |-> "onSuccess", call |-> c], [cb |-> "onOpenChange", call |-> c]>>

\* DeleteSessionDialog lines 35-41: what handleDelete calls once the
\* deleteSession call c of the dialog has ended as settled
handleDeleteCallbacks(c, settled) ==
  IF settled = "resolved"
    THEN <<[cb |-> "onSuccess", call |-> c], [cb |-> "onOpenChange", call |-> c]>>
    ELSE <<>>

\* the rest of the caller's handler after call c has ended
AfterCall(c, via, settled) ==
  IF via = "dialog"
    THEN LET cbs == handleDeleteCallbacks(c, settled)
         IN  /\ callbacks' = callbacks \o cbs
             /\ IF \E i \in 1..Len(cbs) : cbs[i].cb = "onOpenChange"
                  THEN open' = FALSE /\ closedBy' = "handleDelete"
                  ELSE UNCHANGED <<open, closedBy>>
    ELSE UNCHANGED <<open, closedBy, callbacks>>

\* a component calls the deleteSession of its hook instance
DirectCall ==
  /\ \E path \in Paths : deleteSession("direct", path)
  /\ UNCHANGED <<open, filePath, closedBy, callbacks>>
  /\ UNCHANGED <<scriptVars, exportVars, editorVars>>

\* DeleteSessionDialog lines 34-42, 93-98: a click on the Delete button
handleDelete ==
  /\ open
  /\ ~isDeleting
  /\ deleteSession("dialog", filePath)
  /\ IF ValidPath(filePath)
       THEN UNCHANGED <<open, closedBy, callbacks>>
       ELSE AfterCall(Len(calls) + 1, "dialog", "invalid")
  /\ UNCHANGED filePath
  /\ UNCHANGED <<scriptVars, exportVars, editorVars>>

\* lines 195-198, 203-205: the request resolves
InvokeResolves ==
  /\ \E c \in 1..Len(calls) :
       /\ calls[c].status = "pending"
       /\ calls' = [calls EXCEPT ![c].status = "resolved"]
       /\ AfterCall(c, calls[c].via, "resolved")
  /\ isDeleting' = FALSE
  /\ UNCHANGED <<error, invoked, filePath>>
  /\ UNCHANGED <<scriptVars, exportVars, editorVars>>

\* lines 199-205: the request rejects
InvokeRejects ==
  /\ \E c \in 1..Len(calls), err \in Rejections :
       /\ calls[c].status = "pending"
       /\ calls' = [calls EXCEPT ![c].status = "rejected"]
       /\ error' = errorMessage(err)
       /\ AfterCall(c, calls[c].via, "rejected")
  /\ isDeleting' = FALSE
  /\ UNCHANGED <<invoked, filePath>>
  /\ UNCHANGED <<scriptVars, exportVars, editorVars>>

\* DeleteSessionDialog lines 85-92: a click on the Cancel button
Cancel ==
  /\ open
  /\ ~isDeleting
  /\ open' = FALSE
  /\ closedBy' = "cancel"
  /\ UNCHANGED <<isDeleting, error, calls, invoked, filePath, callbacks>>
  /\ UNCHANGED <<scriptVars, exportVars, editorVars>>

\* DeleteSessionDialog line 45: the Dialog itself asks to be closed
Dismiss ==
  /\ open
  /\ open' = FALSE
  /\ closedBy' = "dismiss"
  /\ UNCHANGED <<isDeleting, error, calls, invoked, filePath, callbacks>>
  /\ UNCHANGED <<scriptVars, exportVars, editorVars>>

\* DeleteSessionDialog lines 24-30: the parent shows the dialog again
Reopen ==
  /\ ~open
  /\ open' = TRUE
  /\ closedBy' = "none"
  /\ filePath' \in Paths
  /\ UNCHANGED <<isDeleting, error, calls, invoked, callbacks>>
  /\ UNCHANGED <<scriptVars, exportVars, editorVars>>

InitHook == IdleScripts /\ IdleUi

NextHook ==
  \/ DirectCall
  \/ InvokeResolves
  \/ InvokeRejects

SpecHook == InitHook /\ [][NextHook]_vars

InitDialog == IdleScripts /\ InitDeleteVars /\ IdleExportVars /\ IdleEditorVars

NextDialog ==
  \/ handleDelete
  \/ InvokeResolves
  \/ InvokeRejects
  \/ Cancel
  \/ Dismiss
  \/ Reopen

SpecDialog == InitDialog /\ [][NextDialog]_vars

-----------------------------------------------------------------------------
(* Properties of session deletion                                          *)

\* a delete_session request of the hook instance has not settled yet
Outstanding == \E c \in 1..Len(calls) : calls[c].status = "pending"

\* C15: a deleteSession call whose path is empty or not absolute sets error
\* to the invalid-path message and is rejected; it issues no delete_session
\* request and leaves isDeleting as it was.
C15_InvalidPathRejected ==
  /\ [](\A i \in 1..Len(invoked) : invoked[i] # "" /\ isAbsolutePath(invoked[i]))
  /\ [][Len(calls') = Len(calls) + 1 =>
          LET call == calls'[Len(calls')]
          IN  (call.path = "" \/ ~isAbsolutePath(call.path)) =>
                /\ call.status = "invalid"
                /\ error' = InvalidPathMessage
                /\ invoked' = invoked
                /\ isDeleting' = isDeleting]_vars

\* a call with a relative path and a call with the empty path were rejected
\* while an earlier request was outstanding
C15_Witness ==
  /\ Len(calls) = 3
  /\ calls[1].status = "pending"
  /\ calls[2] = [path |-> "sessions/a.jsonl", via |-> "direct", status |-> "invalid"]
  /\ calls[3] = [path |-> "", via |-> "direct", status |-> "invalid"]
  /\ isDeleting
  /\ error = InvalidPathMessage
  /\ Len(invoked) = 1

\* C16: isDeleting is true exactly while at least one delete_session request
\* of the hook instance is outstanding, also when calls overlap.
C16_BusyWhileOutstanding == isDeleting <=> Outstanding

\* the callbacks handleDelete has called for call c
CallbacksOf(c) == SelectSeq(callbacks, LAMBDA e : e.call = c)

\* C17: handleDelete calls onSuccess and then onOpenChange(false) for a call
\* only once its deleteSession has resolved; for a call that was rejected, by
\* the validation or by the backend, it calls neither, the hook's error is
\* set, and the dialog is closed only if the user closed it.
C17_ConfirmFlow ==
  /\ \A c \in 1..Len(calls) :
       IF calls[c].via = "dialog" /\ calls[c].status = "resolved"
         THEN CallbacksOf(c) = <<[cb |-> "onSuccess", call |-> c],
                                 [cb |-> "onOpenChange", call |-> c]>>
         ELSE CallbacksOf(c) = <<>>
  /\ \A i \in 1..Len(callbacks) : callbacks[i].call \in 1..Len(calls)
  /\ (calls # <<>> /\ calls[Len(calls)].status \in {"invalid", "rejected"}) =>
       /\ error # Null
       /\ ~open => closedBy \in {"cancel", "dismiss"}
  /\ (~open /\ closedBy = "handleDelete") =>
       (calls # <<>> /\ calls[Len(calls)].status = "resolved")

\* the dialog stayed open with an error after a rejected request, and a
\* later confirmation resolved, called onSuccess and closed the dialog
C17_Witness ==
  /\ Len(calls) = 2
  /\ calls[1].status = "rejected"
  /\ calls[2].status = "resolved"
  /\ callbacks = <<[cb |-> "onSuccess", call |-> 2], [cb |-> "onOpenChange", call |-> 2]>>
  /\ ~open
  /\ closedBy = "handleDelete"

-----------------------------------------------------------------------------
(* Settings export: ExportImport (getExportSettings, sanitizeSettings,     *)
(* handleExport)                                                           *)

UpperChars == <<"A", "B", "C", "D", "E", "F", "G", "H", "I", "J", "K", "L", "M",
                "N", "O", "P", "Q", "R", "S", "T", "U", "V", "W", "X", "Y", "Z">>
LowerChars == <<"a", "b", "c", "d", "e", "f", "g", "h", "i", "j", "k", "l", "m",
                "n", "o", "p", "q", "r", "s", "t", "u", "v", "w", "x", "y", "z">>

\* the lower-case letter of each upper-case letter, and the converse
LowerOf ==
  [c \in {UpperChars[i] : i \in 1..Len(UpperChars)} |->
     LowerChars[CHOOSE i \in 1..Len(UpperChars) : UpperChars[i] = c]]
UpperOf ==
  [c \in {LowerChars[i] : i \in 1..Len(LowerChars)} |->
     UpperChars[CHOOSE i \in 1..Len(LowerChars) : LowerChars[i] = c]]

toLowerChar(c) == IF c \in DOMAIN LowerOf THEN LowerOf[c] ELSE c
toUpperChar(c) == IF c \in DOMAIN UpperOf THEN UpperOf[c] ELSE c

\* String.prototype.toLowerCase, toUpperCase, includes
toLowerCase(str) == [i \in 1..Len(str) |-> toLowerChar(str[i])]
toUpperCase(str) == [i \in 1..Len(str) |-> toUpperChar(str[i])]
includes(str, sub) ==
  \E i \in 0..(Len(str) - Len(sub)) : SubSeq(str, i + 1, i + Len(sub)) = sub

\* a test that forgets toLowerCase
IsSensitive_CaseSensitive(key) ==
  \/ includes(key, <<"k", "e", "y">>)
  \/ includes(key, <<"t", "o", "k", "e", "n">>)
  \/ includes(key, <<"s", "e", "c", "r", "e", "t">>)

\* lines 266-268
IsSensitive(key) ==
  \/ includes(toLowerCase(key), <<"k", "e", "y">>)
  \/ includes(toLowerCase(key), <<"t", "o", "k", "e", "n">>)
  \/ includes(toLowerCase(key), <<"s", "e", "c", "r", "e", "t">>)

\* line 269: "YOUR_" + key.toUpperCase() + "_HERE"
Mask(key) ==
  <<"Y", "O", "U", "R", "_">> \o toUpperCase(key) \o <<"_", "H", "E", "R", "E">>

\* lines 263-273
sanitizedEnv(env) ==
  [i \in 1..Len(env) |->
     IF IsSensitive(env[i].k) THEN [k |-> env[i].k, v |-> Mask(env[i].k)]
     ELSE env[i]]

\* lines 255-282
sanitizeSettings(settings) ==
  IF settings.mcpServers.has
    THEN [settings EXCEPT !.mcpServers.servers =
            [j \in 1..Len(settings.mcpServers.servers) |->
               LET config == settings.mcpServers.servers[j]
               IN  IF config.hasEnv
                     THEN [config EXCEPT !.env = sanitizedEnv(config.env)]
                     ELSE config]]
    ELSE settings

\* JSON.stringify(settings, null, 2): the text that parses to settings
stringify(settings) == [json |-> settings]

\* lines 243-252
getExportSettings(all, scope) ==
  IF ~all.loaded THEN EmptySettings
  ELSE IF all[scope].kind \in {"null", "empty"} THEN EmptySettings
  ELSE IF all[scope].kind = "malformed" THEN EmptySettings
  ELSE all[scope].settings

\* line 285: allSettings?.[exportScope] !== null
hasExportSettings(all, scope) ==
  IF ~all.loaded THEN TRUE ELSE all[scope].kind # "null"

\* the names of the env entries of the model: API_KEY, authToken, Secret,
\* PATH, KEEP
EnvNames ==
  {<<"A", "P", "I", "_", "K", "E", "Y">>,
   <<"a", "u", "t", "h", "T", "o", "k", "e", "n">>,
   <<"S", "e", "c", "r", "e", "t">>,
   <<"P", "A", "T", "H">>,
   <<"K", "E", "E", "P">>}

\* the values an env entry may hold
EnvValues == {<<"v", "1">>, <<"v", "2">>}

\* Number of entries of the env of a server.
MaxEnv == 2

\* every env of at most MaxEnv entries with distinct names
EnvSeqs ==
  UNION {{e \in [1..n -> [k : EnvNames, v : EnvValues]] :
            \A a \in 1..n, b \in 1..n : a # b => e[a].k # e[b].k} :
         n \in 0..MaxEnv}

PlainServer == [name |-> "files", command |-> "node", hasEnv |-> FALSE, env |-> <<>>]

ServerSet ==
  {[name |-> "github", command |-> "npx", hasEnv |-> FALSE, env |-> <<>>]} \cup
  {[name |-> "github", command |-> "npx", hasEnv |-> TRUE, env |-> e] : e \in EnvSeqs}

SettingsSet ==
  [model : {NoProp, "opus"},
   mcpServers : {[has |-> FALSE, servers |-> <<>>], [has |-> TRUE, servers |-> <<>>]}
                \cup {[has |-> TRUE, servers |-> <<srv>>] : srv \in ServerSet}
                \cup {[has |-> TRUE, servers |-> <<PlainServer, srv>>] : srv \in ServerSet}]

Contents ==
  {NullContent,
   [kind |-> "empty", settings |-> EmptySettings],
   [kind |-> "malformed", settings |-> EmptySettings]}
  \cup {[kind |-> "json", settings |-> st] : st \in SettingsSet}

\* the project scope holds nothing or one fixed settings object
ProjectContents ==
  {NullContent,
   [kind |-> "json",
    settings |-> [model |-> "sonnet",
                  mcpServers |-> [has |-> TRUE, servers |-> <<PlainServer>>]]]}

SettingsScopes == {"user", "project", "local", "managed"}

\* lines 287-300, 396-399: a click on the Export button, up to the save dialog
ExportClick ==
  /\ exportStep = "idle"
  /\ ~isExporting
  /\ hasExportSettings(allSettings, exportScope)
  /\ isExporting' = TRUE
  /\ writes' = <<>>
  /\ LET currentSettings == getExportSettings(allSettings, exportScope)
     IN  settingsToExport' =
           [settings |-> IF excludeSensitive THEN sanitizeSettings(currentSettings)
                         ELSE currentSettings,
            scope |-> exportScope,
            sanitized |-> excludeSensitive]
  /\ exportStep' = "save"
  /\ UNCHANGED <<allSettings, exportScope, excludeSensitive>>
  /\ UNCHANGED <<scriptVars, deleteVars, editorVars>>

\* lines 297-306: the user chose a file; write_text_file is requested
SaveChosen ==
  /\ exportStep = "save"
  /\ \E path \in {"/tmp/claude-settings.json"} :
       writes' = Append(writes, [path |-> path,
                                 content |-> stringify(settingsToExport.settings),
                                 scope |-> settingsToExport.scope,
                                 sanitized |-> settingsToExport.sanitized])
  /\ exportStep' = "write"
  /\ UNCHANGED <<allSettings, exportScope, excludeSensitive, isExporting,
                 settingsToExport>>
  /\ UNCHANGED <<scriptVars, deleteVars, editorVars>>

\* lines 297-302, 310-312: the user closed the save dialog without a file
SaveCancelled ==
  /\ exportStep = "save"
  /\ exportStep' = "idle"
  /\ isExporting' = FALSE
  /\ UNCHANGED <<allSettings, exportScope, excludeSensitive, settingsToExport,
                 writes>>
  /\ UNCHANGED <<scriptVars, deleteVars, editorVars>>

\* lines 303-312: the write resolves or rejects; either way isExporting ends
WriteSettles ==
  /\ exportStep = "write"
  /\ exportStep' = "idle"
  /\ isExporting' = FALSE
  /\ UNCHANGED <<allSettings, exportScope, excludeSensitive, settingsToExport,
                 writes>>
  /\ UNCHANGED <<scriptVars, deleteVars, editorVars>>

\* lines 376-392: the user selects a scope whose item is not disabled
SetExportScope ==
  /\ \E v \in SettingsScopes :
       /\ v # exportScope
       /\ ~(allSettings.loaded /\ allSettings[v].kind = "null")
       /\ exportScope' = v
  /\ UNCHANGED <<allSettings, excludeSensitive, isExporting, exportStep,
                 settingsToExport, writes>>
  /\ UNCHANGED <<scriptVars, deleteVars, editorVars>>

\* lines 406-409: the user flips the switch
SetExcludeSensitive ==
  /\ excludeSensitive' = ~excludeSensitive
  /\ UNCHANGED <<allSettings, exportScope, isExporting, exportStep,
                 settingsToExport, writes>>
  /\ UNCHANGED <<scriptVars, deleteVars, editorVars>>

InitExport ==
  /\ IdleScripts
  /\ InitDeleteVars /\ filePath = "" /\ IdleEditorVars
  /\ allSettings \in
       {NotLoaded} \cup
       {[loaded |-> TRUE, user |-> u, project |-> p,
         local |-> NullContent, managed |-> NullContent] :
          u \in Contents, p \in ProjectContents}
  /\ exportScope = "user"
  /\ excludeSensitive = TRUE
  /\ isExporting = FALSE
  /\ exportStep = "idle"
  /\ settingsToExport = [settings |-> EmptySettings, scope |-> "user", sanitized |-> FALSE]
  /\ writes = <<>>

NextExport ==
  \/ ExportClick
  \/ SaveChosen
  \/ SaveCancelled
  \/ WriteSettles
  \/ SetExportScope
  \/ SetExcludeSensitive

SpecExport == InitExport /\ [][NextExport]_vars

-----------------------------------------------------------------------------
(* Properties of the settings export                                       *)

\* the env names that contain key, token or secret in any letter case:
\* API_KEY, authToken, Secret
SensitiveNames ==
  {<<"A", "P", "I", "_", "K", "E", "Y">>,
   <<"a", "u", "t", "h", "T", "o", "k", "e", "n">>,
   <<"S", "e", "c", "r", "e", "t">>}

\* the settings object the selected scope held when a write was requested
SourceOf(w) ==
  IF allSettings.loaded /\ allSettings[w.scope].kind = "json"
    THEN allSettings[w.scope].settings
    ELSE EmptySettings

\* s and t are the same settings but for the values of sensitive env entries
DifferOnlyInSensitiveValues(s, t) ==
  /\ s.model = t.model
  /\ s.mcpServers.has = t.mcpServers.has
  /\ Len(s.mcpServers.servers) = Len(t.mcpServers.servers)
  /\ \A j \in 1..Len(s.mcpServers.servers) :
       LET a == s.mcpServers.servers[j]
           b == t.mcpServers.servers[j]
       IN  /\ a.name = b.name /\ a.command = b.command /\ a.hasEnv = b.hasEnv
           /\ Len(a.env) = Len(b.env)
           /\ \A n \in 1..Len(a.env) :
                /\ a.env[n].k = b.env[n].k
                /\ a.env[n].k \notin SensitiveNames => a.env[n].v = b.env[n].v

\* the settings s with values[k] as the value of every sensitive env entry k
WithSensitiveValues(s, values) ==
  [s EXCEPT !.mcpServers.servers =
     [j \in 1..Len(s.mcpServers.servers) |->
        [s.mcpServers.servers[j] EXCEPT !.env =
           [n \in 1..Len(s.mcpServers.servers[j].env) |->
              LET e == s.mcpServers.servers[j].env[n]
              IN  IF e.k \in SensitiveNames THEN [k |-> e.k, v |-> values[e.k]]
                  ELSE e]]]]

\* C18: with excludeSensitive on, the content written is the settings of the
\* scope with every sensitive env value replaced by YOUR_<NAME>_HERE and all
\* else unchanged, and settings that differ from them only in sensitive env
\* values would be written as the same content.
C18_ExportHidesSensitiveValues ==
  \A i \in 1..Len(writes) :
    writes[i].sanitized =>
      LET src == SourceOf(writes[i])
          out == writes[i].content.json
      IN  /\ DifferOnlyInSensitiveValues(src, out)
          /\ \A j \in 1..Len(out.mcpServers.servers) :
               \A n \in 1..Len(out.mcpServers.servers[j].env) :
                 LET e == out.mcpServers.servers[j].env[n]
                 IN  e.k \in SensitiveNames =>
                       e.v = <<"Y", "O", "U", "R", "_">> \o toUpperCase(e.k)
                             \o <<"_", "H", "E", "R", "E">>
          /\ \A values \in [SensitiveNames -> EnvValues] :
               /\ DifferOnlyInSensitiveValues(src, WithSensitiveValues(src, values))
               /\ stringify(sanitizeSettings(WithSensitiveValues(src, values)))
                    = writes[i].content

\* a sanitized export of a server whose env holds a sensitive entry written
\* in upper case next to an entry that is not sensitive
C18_Witness ==
  \E i \in 1..Len(writes) :
    /\ writes[i].sanitized
    /\ LET src == SourceOf(writes[i])
       IN  /\ Len(src.mcpServers.servers) = 2
           /\ src.mcpServers.servers[2].env =
                <<[k |-> <<"A", "P", "I", "_", "K", "E", "Y">>, v |-> <<"v", "1">>],
                  [k |-> <<"P", "A", "T", "H">>, v |-> <<"v", "2">>]>>
           /\ writes[i].content.json # src

\* C19: a write_text_file request is issued only when the selected scope has
\* settings and a file was chosen; none is issued while allSettings is null.
C19_NoWriteWithoutSettings ==
  \A i \in 1..Len(writes) :
    /\ allSettings.loaded
    /\ allSettings[writes[i].scope].kind # "null"
    /\ writes[i].path # ""

-----------------------------------------------------------------------------
(* The JSON settings editor: JsonSettingsEditor                            *)

\* the string ""
EmptyText == [kind |-> "blank", value |-> "", form |-> "empty"]

\* the texts the textarea and the initialContent prop may hold: "", white
\* space, {"a":1}, the same value laid out by JSON.stringify(v, null, 2),
\* another value laid out the same way, and a text cut off in the middle
Texts ==
  {EmptyText,
   [kind |-> "blank", value |-> "", form |-> "spaces"],
   [kind |-> "json", value |-> "a", form |-> "compact"],
   [kind |-> "json", value |-> "a", form |-> "pretty"],
   [kind |-> "json", value |-> "b", form |-> "pretty"],
   [kind |-> "bad", value |-> "", form |-> "truncated"]}

\* String.prototype.trim: a text of white space only becomes ""
trim(text) == IF text.kind = "blank" THEN EmptyText ELSE text

\* JSON.parse of a text: the value, or the SyntaxError thrown
parse(text) ==
  IF text.kind = "json"
    THEN [ok |-> TRUE, value |-> text.value, message |-> ""]
    ELSE [ok |-> FALSE, value |-> "", message |-> "Unexpected end of JSON input"]

\* JSON.stringify(value, null, 2)
stringifyIndented(value) == [kind |-> "json", value |-> value, form |-> "pretty"]

validateJson_AcceptAll(json) == [ok |-> TRUE, error |-> Null]

\* lines 36-49: the boolean validateJson returns and the error it sets
validateJson(json) ==
  IF trim(json) = EmptyText
    THEN [ok |-> TRUE, error |-> Null]
    ELSE IF parse(json).ok
      THEN [ok |-> TRUE, error |-> Null]
      ELSE [ok |-> FALSE, error |-> parse(json).message]

\* !!error of lines 106 and 111
Truthy(e) == e # Null /\ e # ""

saveErrorMessage_None(err) == Null

\* line 81: e instanceof Error ? e.message : "Failed to save"
saveErrorMessage(err) ==
  IF err.kind = "Error" THEN err.text ELSE "Failed to save"

\* lines 30-34: the parent passes another initialContent and the effect runs
Reload ==
  /\ \E text \in Texts \ {initialContent} :
       /\ initialContent' = text
       /\ content' = text
  /\ isDirty' = FALSE
  /\ editorError' = Null
  /\ UNCHANGED <<isSaving, inFlight, lastRequest, lastSaved, lastOnSave,
                 lastAttempt>>
  /\ UNCHANGED <<scriptVars, deleteVars, exportVars>>

\* lines 51-55 and 95-102: the user changes the text of the textarea
handleChange ==
  /\ \E value \in Texts \ {content} :
       /\ content' = value
       /\ isDirty' = (value # initialContent)
       /\ editorError' = validateJson(value).error
  /\ UNCHANGED <<initialContent, isSaving, inFlight, lastRequest, lastSaved,
                 lastOnSave, lastAttempt>>
  /\ UNCHANGED <<scriptVars, deleteVars, exportVars>>

\* lines 57-66 and 106: a click on the Format button
handleFormat ==
  /\ ~Truthy(editorError)
  /\ IF parse(content).ok
       THEN /\ content' = stringifyIndented(parse(content).value)
            /\ editorError' = Null
       ELSE /\ editorError' = parse(content).message
            /\ UNCHANGED content
  /\ UNCHANGED <<initialContent, isSaving, isDirty, inFlight, lastRequest,
                 lastSaved, lastOnSave, lastAttempt>>
  /\ UNCHANGED <<scriptVars, deleteVars, exportVars>>

\* lines 68-77 and 109-112: a click on the Save button, up to the await
handleSave ==
  /\ ~Truthy(editorError)
  /\ isDirty
  /\ ~isSaving
  /\ editorError' = validateJson(content).error
  /\ IF ~validateJson(content).ok
       THEN /\ lastAttempt' = "invalid"
            /\ UNCHANGED <<isSaving, inFlight, lastRequest>>
       ELSE /\ isSaving' = TRUE
            /\ inFlight' = <<content>>
            /\ lastRequest' = content
            /\ lastAttempt' = "pending"
  /\ UNCHANGED <<initialContent, content, isDirty, lastSaved, lastOnSave>>
  /\ UNCHANGED <<scriptVars, deleteVars, exportVars>>

\* lines 78-79 and 83: save_settings resolves
SaveResolves ==
  /\ inFlight # <<>>
  /\ isDirty' = FALSE
  /\ lastSaved' = inFlight[1]
  /\ lastOnSave' = inFlight[1]
  /\ isSaving' = FALSE
  /\ inFlight' = <<>>
  /\ lastAttempt' = "resolved"
  /\ UNCHANGED <<initialContent, content, editorError, lastRequest>>
  /\ UNCHANGED <<scriptVars, deleteVars, exportVars>>

\* lines 80-84: save_settings rejects
SaveRejects ==
  /\ inFlight # <<>>
  /\ \E err \in Rejections : editorError' = saveErrorMessage(err)
  /\ isSaving' = FALSE
  /\ inFlight' = <<>>
  /\ lastAttempt' = "rejected"
  /\ UNCHANGED <<initialContent, content, isDirty, lastRequest, lastSaved,
                 lastOnSave>>
  /\ UNCHANGED <<scriptVars, deleteVars, exportVars>>

InitEditor ==
  /\ IdleScripts
  /\ InitDeleteVars /\ filePath = "" /\ IdleExportVars
  /\ initialContent \in Texts
  /\ content = initialContent
  /\ editorError = Null
  /\ isSaving = FALSE
  /\ isDirty = FALSE
  /\ inFlight = <<>>
  /\ lastRequest = NoText
  /\ lastSaved = NoText
  /\ lastOnSave = NoText
  /\ lastAttempt = "none"

NextEditor ==
  \/ Reload
  \/ handleChange
  \/ handleFormat
  \/ handleSave
  \/ SaveResolves
  \/ SaveRejects

SpecEditor == InitEditor /\ [][NextEditor]_vars

-----------------------------------------------------------------------------
(* Properties of the JSON settings editor                                  *)

\* a text that is blank or that JSON.parse accepts
BlankOrJson(text) == trim(text) = EmptyText \/ parse(text).ok

\* C21: save_settings is only ever requested with content that is blank or
\* parses as JSON, and a handleSave that finds any other content sets the
\* error and requests nothing.
C21_SaveGuard ==
  /\ [](lastRequest # NoText => BlankOrJson(lastRequest))
  /\ [](inFlight # <<>> => BlankOrJson(inFlight[1]))
  /\ [][ (handleSave /\ ~BlankOrJson(content))
           => /\ Truthy(editorError')
              /\ UNCHANGED <<inFlight, lastRequest, isSaving>> ]_vars

\* a request made with blank content, and one made with JSON content after
\* a text that is not JSON had been typed and replaced
C21_Witness ==
  /\ lastRequest.kind = "blank"
  /\ lastRequest.form = "spaces"
  /\ inFlight = <<lastRequest>>
  /\ lastSaved.kind = "json"

\* C22: whenever the content differs from both initialContent and the content
\* of the last successful save, isDirty is true.
C22_UnsavedChangesFlagged ==
  (content # initialContent /\ content # lastSaved) => isDirty

\* the messages a rejected save_settings call can leave in the error state
SaveFailureMessages == {saveErrorMessage(err) : err \in Rejections}

\* C23: when save_settings rejects, content and isDirty keep their values,
\* the error holds the message of the failure, onSave is not called and
\* isSaving is false again; isSaving is false whenever no save is under way,
\* however the latest attempt ended.
C23_FailedSave ==
  /\ [][ (inFlight # <<>> /\ lastAttempt' = "rejected")
           => /\ content' = content
              /\ isDirty' = isDirty
              /\ editorError' \in SaveFailureMessages
              /\ Truthy(editorError')
              /\ lastOnSave' = lastOnSave
              /\ lastSaved' = lastSaved
              /\ isSaving
              /\ ~isSaving' ]_vars
  /\ [](lastAttempt \in {"resolved", "rejected", "invalid"} => ~isSaving)
  /\ [](isSaving <=> inFlight # <<>>)

\* a save that was rejected while the editor held unsaved changes, after an
\* earlier save had succeeded
C23_Witness ==
  /\ lastAttempt = "rejected"
  /\ editorError = "Failed to save"
  /\ isDirty
  /\ ~isSaving
  /\ lastSaved # NoText
  /\ lastRequest # lastSaved

-----------------------------------------------------------------------------
(* The maintained pipeline: runs of the Synchronizer and of the Type       *)
(* Generator, in any order, on a tree that also holds misc.json files      *)

\* the text of a key of a legacy flat file: its segments joined by "."
KeyText(key) == IF Len(key) = 1 THEN key[1] ELSE key[1] \o "." \o key[2]

\* the keys the Splitter classifies into the misc bucket
MiscKeys == {KeyText(key) : key \in {k \in FlatKeys : getNamespace(k) = "misc"}}

\* what a misc.json may be: missing, malformed, or a table of such keys
MiscShapes ==
  {[kind |-> "absent", canon |-> FALSE, ks |-> <<>>],
   [kind |-> "malformed", canon |-> FALSE, ks |-> <<>>]} \cup
  {[kind |-> "json", canon |-> TRUE, ks |-> <<k>>] : k \in MiscKeys}

\* the files of the declared namespaces: missing, malformed, or a table of
\* at most one key
PipelineShapes == {shape \in Shapes(TRUE) : Len(shape.ks) <= 1}

\* the directory of a locale: missing, or holding any of these files
PipelineDirs ==
  {[dir |-> FALSE,
    fs |-> [ns \in NsSet |-> [kind |-> "absent", canon |-> FALSE, ks |-> <<>>]],
    misc |-> [kind |-> "absent", canon |-> FALSE, ks |-> <<>>]]}
  \cup {[dir |-> TRUE, fs |-> f, misc |-> m] :
          f \in [NsSet -> PipelineShapes], m \in MiscShapes}

InitPipeline ==
  /\ \E base \in {d \in PipelineDirs : d.dir},
        others \in [LangSet \ {BASE_LANG} -> PipelineDirs] :
       LET shape(lang) == IF lang = BASE_LANG THEN base ELSE others[lang]
           fileShape(lang, ns) == IF ns = "misc" THEN shape(lang).misc
                                  ELSE shape(lang).fs[ns]
       IN  /\ files = [lang \in LangSet |-> [ns \in NsSet \cup {"misc"} |->
                         FileOf(lang, fileShape(lang, ns).kind,
                                fileShape(lang, ns).canon,
                                fileShape(lang, ns).ks)]]
           /\ dirs = [lang \in LangSet |-> shape(lang).dir]
  /\ files0 = files
  /\ dirs0 = dirs
  /\ pc \in {"run", "generate"}
  /\ nsIdx = 1
  /\ langIdx = 1
  /\ report = [lang \in LangSet |-> [ns \in NsSet |-> NoReport]]
  /\ totals = [lang \in LangSet |-> 0]
  /\ run = 1
  /\ writeLog = {}
  /\ accessed = {}
  /\ prevChanges = 0
  /\ thrown = "none"
  /\ flat = <<>>
  /\ allStats = <<>>
  /\ classified = {}
  /\ warnings = {}
  /\ okPrinted = FALSE
  /\ InitOther

\* build-auto.cjs lines 91-93: generateTypes is started after another run
\* has ended
StartGenerate ==
  /\ pc \in {"done", "aborted"}
  /\ pc' = "generate"
  /\ nsIdx' = 1
  /\ thrown' = "none"
  /\ namespaceKeys' = <<>>
  /\ allKeys' = <<>>
  /\ genWarnings' = {}
  /\ UNCHANGED <<output, uiVars>>
  /\ UNCHANGED <<files, dirs, dirs0, langIdx, splitVars>>
  /\ UNCHANGED <<report, totals, run, files0, writeLog, accessed, prevChanges>>

NextPipeline ==
  \/ NextSync
  \/ NextTypes
  \/ StartGenerate

SpecPipeline == InitPipeline /\ [][NextPipeline]_vars

\* the keys the generated file lists, in any of its types
GeneratedKeys ==
  Range(output.TranslationKey) \cup
  UNION {Range(output.keyTypes[i].members) : i \in 1..Len(output.keyTypes)}

\* C24: over any runs of the Synchronizer and the Type Generator no misc.json
\* is tested, read, created, changed or deleted, only files of the declared
\* namespaces are touched, and no key of the misc bucket appears in the
\* generated key types.
C24_MiscOutsidePipeline ==
  /\ [][\A lang \in LangSet : files'[lang]["misc"] = files[lang]["misc"]]_vars
  /\ [](\A a \in accessed \cup writeLog : a[2] \in Range(NAMESPACES))
  /\ [](/\ GeneratedKeys \cap MiscKeys = {}
        /\ "misc" \notin Range(output.I18nNamespace))

\* both scripts have run to their end, the Synchronizer twice and writing,
\* on a tree whose base misc.json holds a key and whose other misc.json is
\* malformed
C24_Witness ==
  /\ pc = "done"
  /\ run = 2
  /\ output.written
  /\ output.TranslationKey # <<>>
  /\ prevChanges > 0
  /\ IsTable(files[BASE_LANG]["misc"])
  /\ KeySet(JSONparse(files[BASE_LANG]["misc"])) = MiscKeys
  /\ \E lang \in LangSet : files[lang]["misc"] = Malformed

=============================================================================
